---- MODULE Spec2Model ----
(***************************************************************************)
(* Model of nevergrad/functions/images/core.py: the Image recovery         *)
(* objective, the ImageAdversarial objective and its benchmark generator   *)
(* make_benchmark_functions.                                               *)
(*                                                                         *)
(* Arrays and tensors are records [shape, buf]: the shape and the C-order  *)
(* buffer, which is how numpy and torch store a contiguous array.  Real    *)
(* numbers of the adversarial part are fixed-point integers in units of    *)
(* 1/One (One = 1000 stands for 1.0); pixel values of the recovery part    *)
(* are integer-valued floats.                                              *)
(***************************************************************************)
EXTENDS Integers, Sequences, FiniteSets, TLC

VARIABLES
    obj,        \* the objective instance under evaluation (None before construction)
    ctor,       \* the last constructor call: class, epsilon argument, exception raised
    constructed,\* the instance as its constructor returned it
    last,       \* the last _loss call: point, value, error, classifier calls, tensor fed
    prev,       \* the _loss call before it
    gen,        \* the generator returned by make_benchmark_functions (None before the call)
    provider,   \* the items the data loader will deliver, in delivery order
    yielded,    \* the instances the generator has yielded so far
    readAtYield \* number of provider items read when each instance was yielded

vars == <<obj, ctor, constructed, last, prev, gen, provider, yielded, readAtYield>>

None == [kind |-> "None"]
NoCall == [kind |-> "NoCall"]

-----------------------------------------------------------------------------
(* Bounds and program constants *)

ImageSide == 2        \* stands for the 256 of domain_shape
AdvSide == 2          \* stands for imsize = 224
MaxItems == 3         \* longest data-loader sequence explored
MaxNextCalls == 3     \* next() calls explored on one generator

Channels == 3         \* colour channels
NumClasses == 10      \* outputs of TestClassifier's linear layer
One == 1000           \* fixed-point 1.0, the upper clamp limit
DefaultEpsilon == 50  \* 0.05 in fixed point

-----------------------------------------------------------------------------
(* numpy / torch array helpers *)

RECURSIVE Prod(_)
Prod(shape) == IF shape = <<>> THEN 1 ELSE Head(shape) * Prod(Tail(shape))

RECURSIVE NpSum(_)
NpSum(buf) == IF buf = <<>> THEN 0 ELSE Head(buf) + NpSum(Tail(buf))

Filled(shape, v) == [shape |-> shape, buf |-> [k \in 1..Prod(shape) |-> v]]

Abs(v) == IF v < 0 THEN -v ELSE v

\* x.ravel(): a one-dimensional view of the same C-order buffer
Ravel(a) == [shape |-> <<Len(a.buf)>>, buf |-> a.buf]

\* x.reshape(shape): the same buffer under another shape
CanReshape(a, shape) == Len(a.buf) = Prod(shape)
Reshape(a, shape) == [shape |-> shape, buf |-> a.buf]

\* element [i, j, c] of a three-dimensional C-order array (0-based indices)
At3(a, i, j, c) == a.buf[(i * a.shape[2] + j) * a.shape[3] + c + 1]

\* np.subtract / np.fabs on arrays of equal shape: elementwise
NpSubtract(a, b) == [shape |-> a.shape, buf |-> [k \in 1..Len(a.buf) |-> a.buf[k] - b.buf[k]]]
NpFabs(a) == [shape |-> a.shape, buf |-> [k \in 1..Len(a.buf) |-> Abs(a.buf[k])]]

-----------------------------------------------------------------------------
(* class Image *)

domain_shape == <<ImageSide, ImageSide, Channels>>

Palette == <<0, 17, 128, 255>>

\* The decoded, resized asset: an RGBA array whose 4th channel is 255.
AssetImage(s) ==
    [shape |-> <<ImageSide, ImageSide, Channels + 1>>,
     buf |-> [k \in 1..(ImageSide * ImageSide * (Channels + 1)) |->
                 IF k % (Channels + 1) = 0 THEN 255
                 ELSE Palette[((k * (s + 1) + (k \div 5)) % 4) + 1]]]

AssetSeeds == 0..3

\* np.asarray(image)[:, :, :3]
DropAlpha(a) ==
    LET h == a.shape[1]
        w == a.shape[2]
    IN [shape |-> <<h, w, 3>>,
        buf |-> [k \in 1..(h * w * 3) |->
                    At3(a, (k - 1) \div (w * 3), ((k - 1) \div 3) % w, (k - 1) % 3)]]

\* Image.__init__: None when one of the asserts fails
ImageInit(problem_name, index, asset) ==
    IF problem_name # "recovering" \/ index # 0
    THEN None
    ELSE [kind |-> "Image",
          domain_shape |-> domain_shape,
          problem_name |-> problem_name,
          index |-> index,
          data |-> DropAlpha(asset),
          descriptors |-> [problem_name |-> problem_name, index |-> index]]

\* Image._loss with the np.fabs dropped
ImageLossNoFabs(self, x) ==
    IF ~CanReshape(Ravel(x), self.domain_shape)
    THEN [err |-> "ValueError", returned |-> FALSE, value |-> 0, after |-> x]
    ELSE LET xr == Reshape(Ravel(x), self.domain_shape)
         IN [err |-> "none", returned |-> TRUE,
             value |-> NpSum(NpSubtract(xr, self.data).buf), after |-> x]

\* Image._loss
ImageLoss(self, x) ==
    IF ~CanReshape(Ravel(x), self.domain_shape)
    THEN [err |-> "ValueError", returned |-> FALSE, value |-> 0, after |-> x]
    ELSE LET xr == Reshape(Ravel(x), self.domain_shape)
         IN [err |-> "none", returned |-> TRUE,
             value |-> NpSum(NpFabs(NpSubtract(xr, self.data)).buf), after |-> x]

Shifted(a, d) == [shape |-> a.shape, buf |-> [k \in 1..Len(a.buf) |-> a.buf[k] + d]]

\* candidate points handed to Image._loss
ImagePoints(self) ==
    LET n == Prod(self.domain_shape)
        shaped == {self.data, Shifted(self.data, 1), Shifted(self.data, -1),
                   Filled(self.domain_shape, 128), Filled(self.domain_shape, 0),
                   Filled(self.domain_shape, 255),
                   [shape |-> self.domain_shape,
                    buf |-> [k \in 1..n |-> IF k % 2 = 0 THEN 255 ELSE k % 7]]}
    IN shaped \cup {Ravel(p) : p \in shaped}
              \cup {Filled(<<n + 1>>, 128), Filled(<<n - 1>>, 128)}

-----------------------------------------------------------------------------
(* ng.p.Array: the parametrization of the search domain *)

\* ng.p.Array(init=..., mutable_sigma=True)
ArrayNew(shape, init) ==
    [err |-> "none", shape |-> shape, init |-> init, sigma |-> One,
     lower |-> None, upper |-> None, method |-> "none", recombination |-> None]

\* Array.set_mutation(sigma=...): rejects a sigma that is not positive
SetMutation(a, sigma) ==
    IF a.err # "none" THEN a
    ELSE IF sigma <= 0 THEN [a EXCEPT !.err = "ConfigError"]
    ELSE [a EXCEPT !.sigma = sigma]

\* Array.set_bounds(lower, upper, method="clipping", ...): rejects lower > upper
SetBounds(a, lower, upper) ==
    IF a.err # "none" THEN a
    ELSE IF lower > upper THEN [a EXCEPT !.err = "ConfigError"]
    ELSE [a EXCEPT !.lower = [v |-> lower], !.upper = [v |-> upper], !.method = "clipping"]

\* Array.set_recombination(Crossover(axis=..., max_size=Scalar(lower=1, upper=200)))
SetRecombination(a, axis) ==
    IF a.err # "none" THEN a
    ELSE [a EXCEPT !.recombination = [kind |-> "Crossover", axis |-> axis,
                                      max_size_lower |-> 1, max_size_upper |-> 200]]

-----------------------------------------------------------------------------
(* class TestClassifier, nn.CrossEntropyLoss *)

TestClassifier(image_size, seed) ==
    [kind |-> "TestClassifier", image_size |-> image_size, seed |-> seed]

Resnet50 == [kind |-> "Resnet50"]

\* weight [c, k] of the linear layer (fixed after construction)
Weight(classifier, c, k) == ((c * k + classifier.seed + c) % 3) - 1

RECURSIVE Dot(_, _, _, _)
Dot(classifier, c, buf, k) ==
    IF k = 0 THEN 0
    ELSE Weight(classifier, c, k) * buf[k] + Dot(classifier, c, buf, k - 1)

\* TestClassifier.forward: the linear layer on x.view(x.shape[0], -1);
\* the layer raises when the flattened length is not its in_features
Forward(classifier, x) ==
    IF Len(x.buf) # classifier.image_size * classifier.image_size * 3
    THEN [err |-> "RuntimeError", logits |-> <<>>]
    ELSE [err |-> "none",
          logits |-> [c \in 1..NumClasses |-> Dot(classifier, c, x.buf, Len(x.buf))]]

RECURSIVE SeqMax(_)
SeqMax(s) ==
    IF Len(s) = 1 THEN s[1]
    ELSE LET m == SeqMax(Tail(s)) IN IF Head(s) > m THEN Head(s) ELSE m

\* nn.CrossEntropyLoss on one item: log-sum-exp of the logits minus the
\* label's logit, with the log-sum-exp taken at its dominant term
CrossEntropy(logits, label) == SeqMax(logits) - logits[label + 1]

-----------------------------------------------------------------------------
(* class ImageAdversarial *)

\* sigma handed to set_mutation, with the recovery problem's constant
AdvSigmaConstant(epsilon) == 35 * One

\* sigma handed to set_mutation: self.epsilon / 10
AdvSigma(epsilon) == epsilon \div 10

\* ImageAdversarial.__init__
AdvInit(classifier, image, label, targeted, epsilon) ==
    LET a0 == ArrayNew(image.shape, Filled(image.shape, 0))
        a1 == SetMutation(a0, AdvSigma(epsilon))
        a2 == SetBounds(a1, -epsilon, epsilon)
        a3 == SetRecombination(a2, <<1, 2>>)
    IN IF a3.err # "none"
       THEN [err |-> a3.err, self |-> None]
       ELSE [err |-> "none",
             self |-> [kind |-> "ImageAdversarial",
                       targeted |-> targeted,
                       epsilon |-> epsilon,
                       image |-> image,
                       label |-> label,
                       classifier |-> classifier,
                       imsize |-> image.shape[2],
                       parametrization |-> a3,
                       initialization_func |-> "cls",
                       initialization_tags |-> None,
                       descriptors |-> [n \in {"label", "targeted", "epsilon"} |->
                                           CASE n = "label" -> [v |-> label]
                                             [] n = "targeted" -> [v |-> targeted]
                                             [] n = "epsilon" -> [v |-> epsilon]]]]

Clamp(v, lo, hi) == IF v < lo THEN lo ELSE IF v > hi THEN hi ELSE v

TensorAdd(a, b) == [shape |-> a.shape, buf |-> [k \in 1..Len(a.buf) |-> a.buf[k] + b.buf[k]]]

\* self.image + x without the clamp
PerturbedUnclamped(image, x) == TensorAdd(image, x)

\* torch.clamp(self.image + x, 0, 1)
Perturbed(image, x) ==
    LET s == TensorAdd(image, x)
    IN [shape |-> s.shape, buf |-> [k \in 1..Len(s.buf) |-> Clamp(s.buf[k], 0, One)]]

\* a forward pass repeated once when it raises
InvokeClassifierRetry(classifier, x) ==
    LET f == Forward(classifier, x)
    IN IF f.err = "none" THEN [err |-> "none", logits |-> f.logits, calls |-> 1]
       ELSE LET g == Forward(classifier, x)
            IN [err |-> g.err, logits |-> g.logits, calls |-> 2]

\* self.classifier(image_adv): one forward pass, its exception propagates
InvokeClassifier(classifier, x) ==
    LET f == Forward(classifier, x)
    IN [err |-> f.err, logits |-> f.logits, calls |-> 1]

\* the factor with the two cases exchanged
LossSignSwapped(targeted) == IF targeted THEN -1 ELSE 1

\* (1.0 if self.targeted else -1.0)
LossSign(targeted) == IF targeted THEN 1 ELSE -1

\* ImageAdversarial._loss
AdvLoss(self, x) ==
    LET image_adv == Perturbed(self.image, x)
        n == 3 * self.imsize * self.imsize
    IN IF Len(image_adv.buf) # n
       THEN [err |-> "RuntimeError", returned |-> FALSE, value |-> 0, after |-> x,
             calls |-> 0, fed |-> None]
       ELSE LET viewed == Reshape(image_adv, <<1, 3, self.imsize, self.imsize>>)
                out == InvokeClassifier(self.classifier, viewed)
            IN IF out.err # "none"
               THEN [err |-> out.err, returned |-> FALSE, value |-> 0, after |-> x,
                     calls |-> out.calls, fed |-> viewed]
               ELSE [err |-> "none", returned |-> TRUE,
                     value |-> CrossEntropy(out.logits, self.label) * LossSign(self.targeted),
                     after |-> x, calls |-> out.calls, fed |-> viewed]

AdvPalette == <<0, 20, 500, 990, One>>

\* base images: tensors of shape (3, imsize, imsize) with coordinates in [0, 1]
BaseImage(s) ==
    [shape |-> <<3, AdvSide, AdvSide>>,
     buf |-> [k \in 1..(3 * AdvSide * AdvSide) |-> AdvPalette[((k + s) % 5) + 1]]]

BaseImages == {BaseImage(0), BaseImage(3)}

EpsilonValues == {-50, 0, 50, 100}

\* candidate perturbations handed to ImageAdversarial._loss
AdvPoints(self) ==
    LET sh == self.image.shape
    IN {Filled(sh, 0), Filled(sh, self.epsilon), Filled(sh, -self.epsilon),
        Filled(sh, 2 * One), Filled(sh, -2 * One),
        [shape |-> sh,
         buf |-> [k \in 1..Prod(sh) |-> IF k % 2 = 0 THEN 300 ELSE -700]]}

-----------------------------------------------------------------------------
(* ImageAdversarial._with_tag and make_benchmark_functions *)

Tags(name) == [n \in {"benchmark"} |-> [v |-> name]]

\* _with_tag without the add_descriptors call
WithTagNoDescriptors(tags, classifier, image, label, targeted, epsilon) ==
    LET r == AdvInit(classifier, image, label, targeted, epsilon)
    IN IF r.err # "none" THEN r
       ELSE [err |-> "none",
             self |-> [r.self EXCEPT !.initialization_func = "_with_tag",
                                     !.initialization_tags = tags]]

\* ImageAdversarial._with_tag
WithTag(tags, classifier, image, label, targeted, epsilon) ==
    LET r == AdvInit(classifier, image, label, targeted, epsilon)
    IN IF r.err # "none" THEN r
       ELSE [err |-> "none",
             self |-> [r.self EXCEPT !.descriptors = tags @@ r.self.descriptors,
                                     !.initialization_func = "_with_tag",
                                     !.initialization_tags = tags]]

\* a batch of one image, as the data loader delivers it
Batch(image) == [shape |-> <<1>> \o image.shape, buf |-> image.buf]

\* data[0]
IndexFirst(t) ==
    [shape |-> Tail(t.shape), buf |-> SubSeq(t.buf, 1, Prod(Tail(t.shape)))]

\* one delivery of the data loader, with the classifier's prediction for it
Items ==
    [data : {Batch(im) : im \in BaseImages}, target : {1, 7}, pred : {1, 7}]

RECURSIVE SeqsUpTo(_, _)
SeqsUpTo(S, n) ==
    IF n = 0 THEN {<<>>}
    ELSE LET shorter == SeqsUpTo(S, n - 1)
         IN shorter \cup {Append(q, e) : q \in {r \in shorter : Len(r) = n - 1}, e \in S}

\* the for loop of the "imagenet" branch from item k on: the value of the
\* local variable func when the loop ends (None while it is unbound)
RECURSIVE ImagenetLoop(_, _, _, _)
ImagenetLoop(tags, items, k, func) ==
    IF k > Len(items) THEN func
    ELSE LET it == items[k]
         IN IF it.pred = it.target
            THEN ImagenetLoop(tags, items, k + 1,
                              WithTag(tags, Resnet50, IndexFirst(it.data), it.target,
                                      FALSE, DefaultEpsilon).self)
            ELSE ImagenetLoop(tags, items, k + 1, func)

BenchmarkNames == {"test", "imagenet", "nonsense", ""}

-----------------------------------------------------------------------------
(* The state machine *)

Init ==
    /\ obj = None
    /\ ctor = NoCall
    /\ constructed = None
    /\ last = NoCall
    /\ prev = NoCall
    /\ gen = NoCall
    /\ provider = <<>>
    /\ yielded = <<>>
    /\ readAtYield = <<>>

Fresh == obj = None /\ ctor = NoCall /\ gen = NoCall

\* Image(problem_name, index)
ConstructImage ==
    /\ Fresh
    /\ \E problem_name \in {"recovering", "other"}, index \in {0, 1}, s \in AssetSeeds :
          LET r == ImageInit(problem_name, index, AssetImage(s))
          IN /\ obj' = r
             /\ constructed' = r
             /\ ctor' = [kind |-> "call", class |-> "Image", epsilon |-> 0,
                         err |-> IF r = None THEN "AssertionError" ELSE "none"]
    /\ UNCHANGED <<last, prev, gen, provider, yielded, readAtYield>>

\* ImageAdversarial(classifier, image, label, targeted, epsilon)
ConstructAdv ==
    /\ Fresh
    /\ \E classifier \in {TestClassifier(AdvSide, 0), TestClassifier(AdvSide, 1),
                          TestClassifier(AdvSide + 1, 0)},
          image \in BaseImages, label \in {0, 3}, targeted \in BOOLEAN,
          epsilon \in EpsilonValues :
          LET r == AdvInit(classifier, image, label, targeted, epsilon)
          IN /\ obj' = r.self
             /\ constructed' = r.self
             /\ ctor' = [kind |-> "call", class |-> "ImageAdversarial",
                         epsilon |-> epsilon, err |-> r.err]
    /\ UNCHANGED <<last, prev, gen, provider, yielded, readAtYield>>

\* one call of Image._loss
EvaluateImage ==
    /\ obj.kind = "Image"
    /\ \E x \in ImagePoints(obj) :
          LET r == ImageLoss(obj, x)
          IN last' = [kind |-> "call", point |-> x, after |-> r.after, err |-> r.err,
                      returned |-> r.returned, value |-> r.value, calls |-> 0,
                      fed |-> None]
    /\ prev' = last
    /\ UNCHANGED <<obj, ctor, constructed, gen, provider, yielded, readAtYield>>

\* one call of a _loss that writes the perturbed image back into self.image
EvaluateAdvInPlace ==
    /\ obj.kind = "ImageAdversarial"
    /\ \E x \in AdvPoints(obj) :
          LET r == AdvLoss(obj, x)
          IN /\ last' = [kind |-> "call", point |-> x, after |-> r.after, err |-> r.err,
                         returned |-> r.returned, value |-> r.value, calls |-> r.calls,
                         fed |-> r.fed]
             /\ obj' = [obj EXCEPT !.image = Perturbed(obj.image, x)]
    /\ prev' = last
    /\ UNCHANGED <<ctor, constructed, gen, provider, yielded, readAtYield>>

\* one call of ImageAdversarial._loss
EvaluateAdv ==
    /\ obj.kind = "ImageAdversarial"
    /\ \E x \in AdvPoints(obj) :
          LET r == AdvLoss(obj, x)
          IN last' = [kind |-> "call", point |-> x, after |-> r.after, err |-> r.err,
                      returned |-> r.returned, value |-> r.value, calls |-> r.calls,
                      fed |-> r.fed]
    /\ prev' = last
    /\ UNCHANGED <<obj, ctor, constructed, gen, provider, yielded, readAtYield>>

\* ImageAdversarial.make_benchmark_functions(name): a generator function, so
\* the call runs none of the body and hands back a generator.  ready says
\* whether the names the "imagenet" branch looks up (data_folder,
\* torch.utils.DataLoader) resolve in the running process.
MakeBenchmark ==
    /\ Fresh
    /\ \E name \in BenchmarkNames, ready \in BOOLEAN, items \in SeqsUpTo(Items, MaxItems) :
          /\ name # "imagenet" => (items = <<>> /\ ready)
          /\ ~ready => items = <<>>
          /\ gen' = [kind |-> "generator", name |-> name, pc |-> "created",
                     err |-> "none", calls |-> 0, ready |-> ready]
          /\ provider' = items
    /\ UNCHANGED <<obj, ctor, constructed, last, prev, yielded, readAtYield>>

CanAdvance == gen.kind = "generator" /\ gen.calls < MaxNextCalls

\* first next() on the "test" generator: runs to the yield
NextTest ==
    /\ CanAdvance
    /\ gen.pc = "created"
    /\ gen.name = "test"
    /\ \E image \in BaseImages, seed \in {0, 1} :
          LET func == WithTag(Tags(gen.name), TestClassifier(AdvSide, seed), image, 0,
                              FALSE, DefaultEpsilon).self
          IN yielded' = Append(yielded, func)
    /\ readAtYield' = Append(readAtYield, 0)
    /\ gen' = [gen EXCEPT !.pc = "suspended", !.err = "none", !.calls = @ + 1]
    /\ UNCHANGED <<obj, ctor, constructed, last, prev, provider>>

\* first next() on the "imagenet" generator: the whole loop, then the yield
NextImagenet ==
    /\ CanAdvance
    /\ gen.pc = "created"
    /\ gen.name = "imagenet"
    /\ IF ~gen.ready
       THEN /\ gen' = [gen EXCEPT !.pc = "finished", !.err = "NameError", !.calls = @ + 1]
            /\ UNCHANGED <<yielded, readAtYield>>
       ELSE LET func == ImagenetLoop(Tags(gen.name), provider, 1, None)
            IN IF func = None
               THEN /\ gen' = [gen EXCEPT !.pc = "finished", !.err = "UnboundLocalError",
                                          !.calls = @ + 1]
                    /\ UNCHANGED <<yielded, readAtYield>>
               ELSE /\ gen' = [gen EXCEPT !.pc = "suspended", !.err = "none",
                                          !.calls = @ + 1]
                    /\ yielded' = Append(yielded, func)
                    /\ readAtYield' = Append(readAtYield, Len(provider))
    /\ UNCHANGED <<obj, ctor, constructed, last, prev, provider>>

\* an unknown name whose first next() ends the generator without raising
NextUnknownSwallowed ==
    /\ CanAdvance
    /\ gen.pc = "created"
    /\ gen.name \notin {"test", "imagenet"}
    /\ gen' = [gen EXCEPT !.pc = "finished", !.err = "StopIteration", !.calls = @ + 1]
    /\ UNCHANGED <<obj, ctor, constructed, last, prev, provider, yielded, readAtYield>>

\* first next() on a generator made with any other name: the else branch
NextUnknown ==
    /\ CanAdvance
    /\ gen.pc = "created"
    /\ gen.name \notin {"test", "imagenet"}
    /\ gen' = [gen EXCEPT !.pc = "finished", !.err = "ValueError", !.calls = @ + 1]
    /\ UNCHANGED <<obj, ctor, constructed, last, prev, provider, yielded, readAtYield>>

\* next() on a generator suspended at its yield: the body ends
NextResume ==
    /\ CanAdvance
    /\ gen.pc = "suspended"
    /\ gen' = [gen EXCEPT !.pc = "finished", !.err = "StopIteration", !.calls = @ + 1]
    /\ UNCHANGED <<obj, ctor, constructed, last, prev, provider, yielded, readAtYield>>

\* next() on a generator that has ended or raised
NextFinished ==
    /\ CanAdvance
    /\ gen.pc = "finished"
    /\ gen' = [gen EXCEPT !.err = "StopIteration", !.calls = @ + 1]
    /\ UNCHANGED <<obj, ctor, constructed, last, prev, provider, yielded, readAtYield>>

Next ==
    \/ ConstructImage
    \/ ConstructAdv
    \/ EvaluateImage
    \/ EvaluateAdv
    \/ MakeBenchmark
    \/ NextTest
    \/ NextImagenet
    \/ NextUnknown
    \/ NextResume
    \/ NextFinished

Spec == Init /\ [][Next]_vars

-----------------------------------------------------------------------------
(* Helpers of the properties *)

RECURSIVE SumSet(_, _)
SumSet(S, f) ==
    IF S = {} THEN 0
    ELSE LET e == CHOOSE e \in S : TRUE IN f[e] + SumSet(S \ {e}, f)

PixelIndices == (0..(ImageSide - 1)) \X (0..(ImageSide - 1)) \X (0..(Channels - 1))

\* sum over all pixels [i, j, c] of |x[i, j, c] - target[i, j, c]|, x read in
\* the domain shape
L1Distance(x, target) ==
    LET xs == [shape |-> target.shape, buf |-> x.buf]
    IN SumSet(PixelIndices,
              [t \in PixelIndices |->
                  Abs(At3(xs, t[1], t[2], t[3]) - At3(target, t[1], t[2], t[3]))])

ImageCall == obj.kind = "Image" /\ last.kind = "call"
AdvCall == obj.kind = "ImageAdversarial" /\ last.kind = "call"

\* clamp(baseImage + point, 0, 1), coordinate by coordinate
ClampedSum(image, x) ==
    [k \in 1..Len(image.buf) |->
        LET v == image.buf[k] + x.buf[k]
        IN IF v < 0 THEN 0 ELSE IF v > One THEN One ELSE v]

\* cross-entropy of the classifier's output on clamp(baseImage + point, 0, 1)
LossOnClamped(self, x) ==
    CrossEntropy(Forward(self.classifier,
                         [shape |-> <<1>> \o self.image.shape,
                          buf |-> ClampedSum(self.image, x)]).logits,
                 self.label)

IsGen(name) == gen.kind = "generator" /\ gen.name = name
UnknownGen == gen.kind = "generator" /\ gen.name \notin {"test", "imagenet"}

\* positions of the provider items the classifier predicts correctly
Qualifying == {k \in 1..Len(provider) : provider[k].pred = provider[k].target}

\* position of the n-th qualifying item
NthQualifying(n) ==
    CHOOSE k \in Qualifying : Cardinality({j \in Qualifying : j <= k}) = n

\* the instance the claim expects for provider item k
ExpectedInstance(k) ==
    WithTag(Tags("imagenet"), Resnet50, IndexFirst(provider[k].data),
            provider[k].target, FALSE, DefaultEpsilon).self

-----------------------------------------------------------------------------
(* C1: for "imagenet", once the generator is exhausted the yielded sequence  *)
(* is exactly one instance per correctly classified provider item, in        *)
(* provider order, and the generator ended without an error (an empty        *)
(* sequence when no item qualifies).                                         *)
C1_YieldsEveryQualifyingItem ==
    (IsGen("imagenet") /\ gen.ready /\ gen.pc = "finished") =>
        /\ gen.err = "StopIteration"
        /\ Len(yielded) = Cardinality(Qualifying)
        /\ \A n \in 1..Len(yielded) : yielded[n] = ExpectedInstance(NthQualifying(n))

(* C2: "test" yields exactly one instance and is then exhausted; the         *)
(* instance has label 0, targeted = False and the descriptor                 *)
(* benchmark = "test".                                                       *)
C2_TestYieldsExactlyOne ==
    IsGen("test") =>
        /\ gen.calls = 0 => (yielded = <<>> /\ gen.pc = "created")
        /\ gen.calls = 1 => (gen.pc = "suspended" /\ gen.err = "none")
        /\ gen.calls >= 2 => (gen.pc = "finished" /\ gen.err = "StopIteration")
        /\ gen.calls >= 1 =>
              /\ Len(yielded) = 1
              /\ yielded[1].kind = "ImageAdversarial"
              /\ yielded[1].label = 0
              /\ yielded[1].targeted = FALSE
              /\ "benchmark" \in DOMAIN yielded[1].descriptors
              /\ yielded[1].descriptors["benchmark"].v = "test"

C2_Witness ==
    IsGen("test") /\ gen.calls = 2 /\ gen.pc = "finished" /\ Len(yielded) = 1

(* C3 as stated: for a name other than "test" and "imagenet" the             *)
(* make_benchmark_functions call itself has failed with ValueError, before   *)
(* any advance of a generator, and no instance is yielded.                   *)
C3_CallItselfFails ==
    UnknownGen => (yielded = <<>> /\ (gen.calls = 0 => gen.err = "ValueError"))

(* C3 amended: for a name other than "test" and "imagenet" the call hands    *)
(* back a generator without error; its first advance raises ValueError, no   *)
(* instance is ever yielded, and later advances only report exhaustion.      *)
C3_ValueErrorOnFirstAdvance ==
    UnknownGen =>
        /\ yielded = <<>>
        /\ gen.calls = 0 => (gen.pc = "created" /\ gen.err = "none")
        /\ gen.calls = 1 => (gen.pc = "finished" /\ gen.err = "ValueError")
        /\ gen.calls >= 2 => (gen.pc = "finished" /\ gen.err = "StopIteration")

C3_Witness ==
    UnknownGen /\ gen.name = "nonsense" /\ gen.calls = 1 /\ gen.err = "ValueError"

(* C4: for a point with as many elements as the domain shape, Image._loss    *)
(* returns the sum over all pixels of |point - target|: 0 for the target     *)
(* itself and the number of elements for target + 1.                         *)
C4_LossIsL1Distance ==
    (ImageCall /\ Len(last.point.buf) = Prod(obj.domain_shape)) =>
        /\ last.err = "none"
        /\ last.returned
        /\ last.value = L1Distance(last.point, obj.data)
        /\ last.point.buf = obj.data.buf => last.value = 0
        /\ last.point.buf = Shifted(obj.data, 1).buf =>
              last.value = ImageSide * ImageSide * Channels

C4_Witness ==
    /\ ImageCall
    /\ last.point = Ravel(Shifted(obj.data, 1))
    /\ last.value = ImageSide * ImageSide * Channels
    /\ prev.kind = "call"
    /\ prev.point = obj.data
    /\ prev.value = 0

(* C5: ImageAdversarial._loss returns +L when targeted and -L when           *)
(* untargeted, L the cross-entropy of the classifier on                      *)
(* clamp(baseImage + point, 0, 1) against the label; the same instance with  *)
(* the flag flipped returns the exact negation.                              *)
C5_SignFollowsTargeted ==
    (AdvCall /\ last.returned) =>
        /\ last.value = IF obj.targeted THEN LossOnClamped(obj, last.point)
                        ELSE -LossOnClamped(obj, last.point)
        /\ AdvLoss([obj EXCEPT !.targeted = ~obj.targeted], last.point).value
              = -last.value

C5_Witness ==
    /\ AdvCall /\ last.returned /\ ~obj.targeted /\ last.value < 0
    /\ prev.kind = "call" /\ prev.returned /\ prev.value # last.value

(* C6: constructing an ImageAdversarial with epsilon <= 0 fails with a       *)
(* configuration error, so every constructed instance has epsilon > 0,       *)
(* bounds lower = -epsilon <= upper = +epsilon and sigma = epsilon/10 > 0.   *)
C6_EpsilonMustBePositive ==
    /\ (ctor.kind = "call" /\ ctor.class = "ImageAdversarial" /\ ctor.epsilon <= 0) =>
          (ctor.err = "ConfigError" /\ obj = None)
    /\ obj.kind = "ImageAdversarial" =>
          /\ obj.epsilon > 0
          /\ obj.parametrization.lower = [v |-> -obj.epsilon]
          /\ obj.parametrization.upper = [v |-> obj.epsilon]
          /\ -obj.epsilon <= obj.epsilon
          /\ obj.parametrization.sigma * 10 = obj.epsilon
          /\ obj.parametrization.sigma > 0

C6_Witness ==
    /\ ctor.kind = "call" /\ ctor.class = "ImageAdversarial"
    /\ ctor.epsilon = 0 /\ ctor.err = "ConfigError"

(* C7: evaluations leave the instance exactly as its constructor returned    *)
(* it and leave the point passed in unmodified, and two evaluations of the   *)
(* same point give the same outcome.                                         *)
C7_EvaluateChangesNothing ==
    /\ obj = constructed
    /\ last.kind = "call" => last.after = last.point
    /\ (prev.kind = "call" /\ last.kind = "call" /\ prev.point = last.point) =>
          (prev.err = last.err /\ prev.returned = last.returned
           /\ prev.value = last.value)

C7_Witness ==
    /\ AdvCall /\ prev.kind = "call" /\ prev.point = last.point
    /\ last.returned /\ last.value # 0 /\ last.point # Filled(obj.image.shape, 0)

(* C8: every coordinate of the tensor handed to the classifier lies in       *)
(* [0, 1], also for points outside [-epsilon, +epsilon]; the tensor is the   *)
(* clamped sum of base image and point.                                      *)
C8_ClassifierInputClamped ==
    AdvCall =>
        /\ last.calls >= 1 => last.fed # None
        /\ last.fed # None =>
              /\ \A k \in 1..Len(last.fed.buf) :
                    last.fed.buf[k] >= 0 /\ last.fed.buf[k] <= One
              /\ last.fed.buf = ClampedSum(obj.image, last.point)

C8_Witness ==
    /\ AdvCall /\ last.calls = 1
    /\ last.point = Filled(obj.image.shape, 2 * One)
    /\ \A k \in 1..Len(last.fed.buf) : last.fed.buf[k] = One

C10_YieldsAsSoonAsItemQualifies ==
    (IsGen("imagenet") /\ gen.ready) =>
        \A n \in 1..Len(yielded) :
            /\ n <= Cardinality(Qualifying)
            /\ readAtYield[n] = NthQualifying(n)
            /\ yielded[n] = ExpectedInstance(NthQualifying(n))

====
